---- MODULE Spec2Model ----
(***************************************************************************)
(* The schema migration runner of core/server/data/migration/index.js.     *)
(*                                                                         *)
(* The file holds two variants of the module (the two sides of a merge):   *)
(* the diff-based one (init / migrateUp / migrateUpFreshDb / reset, lines  *)
(* 164-291) and the versioned-step one (module.exports, lines 301-478).    *)
(* Both share getDatabaseVersion, getDefaultDatabaseVersion and            *)
(* setDatabaseVersion (lines 26-73).                                       *)
(*                                                                         *)
(* Strings of the program are sequences of one-character strings, so that  *)
(* parseInt, isNaN, String, zero-padding and the comparison operators are  *)
(* computed the way JavaScript computes them.  Every database operation    *)
(* has a "start" event and a "done" or "fail" event in trace; a promise    *)
(* callback runs as one step, from the completion it waits for to the      *)
(* operations it issues.                                                   *)
(***************************************************************************)
EXTENDS Integers, Sequences, FiniteSets, TLC

VARIABLES
    variant,                \* "diff" | "step": which init/migrate code runs
    client,                 \* models/base client: the engine kind
    tables,                 \* the tables of the database
    settings,               \* marker rows of the settings table: key -> value
    postCols,               \* MySQL: type of posts.html and posts.markdown
    fixtures,               \* fixture rows have been inserted
    defaults,               \* default settings rows have been inserted
    defaultDatabaseVersion, \* the module-level cache (line 15)
    databaseVersion,        \* the version init() resolved in this run
    pc,                     \* the operation the run is waiting for
    path,                   \* the branch init() took in this run
    queue,                  \* commands of the running sequence, head in flight
    inflight,               \* ALTER statements issued and not yet completed
    trace,                  \* events of the current run, in order
    initError,              \* the rejection reason of init()'s promise
    tables0,                \* tables when the current run began
    settings0,              \* marker rows when the current run began
    oldTables,              \* migrateUp: the tables getTables() resolved with
    previous                \* the call of the run before and how it ended

vars == <<variant, client, tables, settings, postCols, fixtures, defaults,
          defaultDatabaseVersion, databaseVersion, pc, path, queue, inflight,
          trace, initError, tables0, settings0, oldTables, previous>>

-----------------------------------------------------------------------------
(* Bounds of the model *)

\* how far below the software's version a marker row of the initial
\* database may be
MaxBehind ==
    1

\* the greatest version number the version helpers are called with
MaxVersionNumber ==
    999

\* calls of the version helpers in one behaviour
MaxCalls ==
    2

\* how far above the software's version a marker row of the initial
\* database may be
MaxAhead ==
    1

\* iterations of a version-aggregation loop that are followed
MaxLoop ==
    8

-----------------------------------------------------------------------------
(* JavaScript strings and numbers *)

Digits == <<"0", "1", "2", "3", "4", "5", "6", "7", "8", "9">>

IsDigit(c) == \E i \in 1..Len(Digits) : Digits[i] = c

DigitVal(c) == (CHOOSE i \in 1..Len(Digits) : Digits[i] = c) - 1

\* the UTF-16 code unit order of the characters the model uses:
\* "-" < "0" < ... < "9" < letters
CharCode(c) ==
    IF c = "-" THEN 0
    ELSE IF IsDigit(c) THEN 1 + DigitVal(c)
    ELSE 11

\* a < b on two strings: code unit by code unit, a proper prefix is smaller
StrLess(a, b) ==
    \E k \in 1..Len(b) :
        /\ \A j \in 1..(k - 1) : j <= Len(a) /\ a[j] = b[j]
        /\ \/ k = Len(a) + 1
           \/ k <= Len(a) /\ CharCode(a[k]) < CharCode(b[k])

RECURSIVE DigitsValue(_)
DigitsValue(s) ==
    IF s = <<>> THEN 0
    ELSE 10 * DigitsValue(SubSeq(s, 1, Len(s) - 1)) + DigitVal(s[Len(s)])

RECURSIVE DigitPrefix(_)
DigitPrefix(s) ==
    IF s = <<>> \/ ~IsDigit(Head(s)) THEN <<>>
    ELSE <<Head(s)>> \o DigitPrefix(Tail(s))

NaN == [nan |-> TRUE, val |-> 0]

Num(n) == [nan |-> FALSE, val |-> n]

\* parseInt(s, 10): an optional sign, then the longest prefix of digits
parseInt(s) ==
    LET neg  == s # <<>> /\ Head(s) = "-"
        body == DigitPrefix(IF neg THEN Tail(s) ELSE s)
    IN  IF body = <<>> THEN NaN
        ELSE Num(IF neg THEN 0 - DigitsValue(body) ELSE DigitsValue(body))

\* isNaN(s) of a string: Number(s) is NaN; Number("") is 0
isNaN(s) ==
    LET neg  == s # <<>> /\ Head(s) = "-"
        body == IF neg THEN Tail(s) ELSE s
    IN  /\ s # <<>>
        /\ \/ body = <<>>
           \/ \E i \in 1..Len(body) : ~IsDigit(body[i])

\* a > b on two numbers: false when either is NaN
NumGreater(a, b) == ~a.nan /\ ~b.nan /\ a.val > b.val

RECURSIVE NatString(_)
NatString(n) ==
    IF n < 10 THEN <<Digits[n + 1]>>
    ELSE NatString(n \div 10) \o <<Digits[(n % 10) + 1]>>

\* String(n) of an integer
String(n) == IF n < 0 THEN <<"-">> \o NatString(0 - n) ELSE NatString(n)

RECURSIVE PadZeros(_)
\* while (s.length < 3) { s = "0" + s; }
PadZeros(s) == IF Len(s) < 3 THEN PadZeros(<<"0">> \o s) ELSE s

initialVersion == <<"0", "0", "0">>

\* getVersionAfter without the padding loop
getVersionAfterUnpadded(currVersion) ==
    LET parsed         == parseInt(currVersion)
        currVersionNum == IF parsed.nan THEN parseInt(initialVersion).val
                          ELSE parsed.val
    IN  String(currVersionNum + 1)

\* getVersionBefore without the default for a version that is not parsed:
\* NaN - 1 is NaN
getVersionBeforeNotDefaulted(currVersion) ==
    LET parsed == parseInt(currVersion)
    IN  IF parsed.nan THEN <<"N", "a", "N">>
        ELSE PadZeros(String(parsed.val - 1))

\* getVersionAfter(currVersion)
getVersionAfter(currVersion) ==
    LET parsed         == parseInt(currVersion)
        currVersionNum == IF parsed.nan THEN parseInt(initialVersion).val
                          ELSE parsed.val
    IN  PadZeros(String(currVersionNum + 1))

\* getVersionBefore(currVersion)
getVersionBefore(currVersion) ==
    LET parsed         == parseInt(currVersion)
        currVersionNum == IF parsed.nan THEN parseInt(initialVersion).val
                          ELSE parsed.val
    IN  PadZeros(String(currVersionNum - 1))

-----------------------------------------------------------------------------
(* The collaborators the module is given *)

\* _.keys(schema): the Registry's tables in declaration order
schemaTables == <<"posts", "users", "settings">>

RegistryTables == {schemaTables[i] : i \in 1..Len(schemaTables)}

\* a table no Registry entry declares
LegacyTables == {"old_widgets"}

\* SQLite's internal sequence table
InternalTables == {"sqlite_sequence"}

\* the defaultValue of the core setting 'databaseVersion'
DefaultSettingsVersion == <<"0", "0", "4">>

MarkerKeys == {"databaseVersion", "currentVersion"}

Clients == {"sqlite3", "mysql", "pg", "mssql"}

Undefined == <<"undefined">>

\* the number of the version the software expects
TargetNumber == parseInt(DefaultSettingsVersion).val

\* a three-digit zero-padded marker, as every version of the program wrote it
Markers ==
    {PadZeros(String(n)) :
        n \in {m \in (TargetNumber - MaxBehind)..(TargetNumber + MaxAhead) : m >= 0}}

PostColumns == {"html", "markdown"}

Widened == [c \in PostColumns |-> "mediumtext"]

-----------------------------------------------------------------------------
(* Events and errors *)

Ev(ph, op, arg) == <<ph, op, arg>>

Started(op, arg) == Ev("start", op, arg)
Completed(op, arg) == Ev("done", op, arg)
Failed(op, arg) == Ev("fail", op, arg)

NoArg == <<>>

\* an Error object (obj) with a message, or a bare string rejection
ErrorObject(msg, of) == [obj |-> TRUE, msg |-> msg, of |-> of]
ErrorString(msg) == [obj |-> FALSE, msg |-> msg, of |-> <<>>]
NoError == [obj |-> FALSE, msg |-> "", of |-> <<>>]

\* errors.throwError(message): throws an Error that carries the message
throwError(msg) == ErrorObject(msg, <<>>)

\* the error a failed database operation rejects with
DbError(op, arg) == ErrorObject("database error", <<op, arg>>)

-----------------------------------------------------------------------------
(* The database *)

\* every enumeration of a finite set as an array
Listings(S) ==
    {l \in [1..Cardinality(S) -> S] : \A i, j \in DOMAIN l : l[i] = l[j] => i = j}

\* the marker rows a settings table may hold
MarkerRows == UNION {[K -> Markers] : K \in SUBSET MarkerKeys}

NoRows == [k \in {} |-> Undefined]

\* knex.schema.createTable(table, ...) on the database
CreateTableEffect(table) ==
    /\ tables' = tables \cup {table}
    /\ UNCHANGED <<settings, postCols, fixtures, defaults>>

\* knex.schema.dropTableIfExists(table) on the database: the rows go with it
DropTableEffect(table) ==
    /\ tables' = tables \ {table}
    /\ settings' = IF table = "settings" THEN NoRows ELSE settings
    /\ defaults' = IF table = "settings" THEN FALSE ELSE defaults
    /\ fixtures' = IF table \in RegistryTables \ {"settings"} THEN FALSE ELSE fixtures
    /\ postCols' = IF table = "posts" THEN Widened ELSE postCols

\* the versions the Migration Step Catalog holds a module for
StepCatalog == {PadZeros(String(n)) : n \in 0..TargetNumber}

\* migration.up() of step `version`: the initial step builds the schema
StepUpEffect(version) ==
    /\ tables' = IF version = initialVersion THEN tables \cup RegistryTables ELSE tables
    /\ UNCHANGED <<settings, postCols, fixtures, defaults>>

\* migration.down() of step `version`: the initial step takes the schema it
\* built away again
StepDownEffect(version) ==
    IF version = initialVersion
    THEN /\ tables' = tables \ RegistryTables
         /\ settings' = NoRows
         /\ defaults' = FALSE
         /\ fixtures' = FALSE
         /\ postCols' = Widened
    ELSE UNCHANGED <<tables, settings, postCols, fixtures, defaults>>

\* a database that takes dropTableIfExists for DROP TABLE: dropping a table
\* that does not exist is an error
AcceptsDropOfLiveOnly(cmd) ==
    CASE cmd[1] = "createTable" -> cmd[2][1] \notin tables
      [] cmd[1] = "dropTableIfExists" -> cmd[2][1] \in tables
      [] cmd[1] = "up" ->
            cmd[2] = initialVersion => tables \cap RegistryTables = {}
      [] cmd[1] = "down" -> TRUE

\* whether the database accepts the command
Accepts(cmd) ==
    CASE cmd[1] = "createTable" -> cmd[2][1] \notin tables
      [] cmd[1] = "dropTableIfExists" -> TRUE
      [] cmd[1] = "up" ->
            cmd[2] = initialVersion => tables \cap RegistryTables = {}
      [] cmd[1] = "down" -> TRUE

\* createTable(table): one knex.schema.createTable statement
createTable(table) == <<"createTable", <<table>>>>

\* deleteTable(table): one knex.schema.dropTableIfExists statement
deleteTable(table) == <<"dropTableIfExists", <<table>>>>

CommandEffect(cmd) ==
    CASE cmd[1] = "createTable" -> CreateTableEffect(cmd[2][1])
      [] cmd[1] = "dropTableIfExists" -> DropTableEffect(cmd[2][1])
      [] cmd[1] = "up" -> StepUpEffect(cmd[2])
      [] cmd[1] = "down" -> StepDownEffect(cmd[2])

DbUnchanged == UNCHANGED <<tables, settings, postCols, fixtures, defaults>>

-----------------------------------------------------------------------------
(* Pure helpers of the module *)

\* _.difference(a, b): the elements of a that b lacks, in a's order
Difference(a, b) == SelectSeq(a, LAMBDA x : \A i \in 1..Len(b) : b[i] # x)

\* _.map(array, f)
Map(a, f(_)) == [i \in 1..Len(a) |-> f(a[i])]

Reverse(a) == [i \in 1..Len(a) |-> a[Len(a) + 1 - i]]

\* getDeleteCommands with the arguments of _.difference exchanged
getDeleteCommandsSwapped(old, new) == Map(Difference(new, old), deleteTable)

\* getDeleteCommands(oldTables, newTables); undefined is the empty list here,
\* as migrateUp tests both with _.isEmpty
getDeleteCommands(old, new) == Map(Difference(old, new), deleteTable)

\* getAddCommands without the _.difference: a createTable for every table of
\* newTables
getAddCommandsOfAll(old, new) == Map(new, createTable)

\* getAddCommands(oldTables, newTables)
getAddCommands(old, new) == Map(Difference(new, old), createTable)

\* getTablesFromSqlite3: sqlite_master without sqlite_sequence
getTablesFromSqlite3 == tables \ InternalTables

\* getTablesFromMySQL: show tables
getTablesFromMySQL == tables

\* getTablesFromPgSQL: information_schema.tables of the public schema
getTablesFromPgSQL == tables

SupportedClient == client \in {"sqlite3", "mysql", "pg"}

\* getTables(): the tables the engine's query lists
getTables ==
    IF client = "sqlite3" THEN getTablesFromSqlite3
    ELSE IF client = "mysql" THEN getTablesFromMySQL
    ELSE getTablesFromPgSQL

\* the reduce with < for > in its comparison
RECURSIVE ReduceVersionsLeast(_, _)
ReduceVersionsLeast(versions, memo) ==
    IF versions = <<>> THEN memo
    ELSE ReduceVersionsLeast(Tail(versions),
            IF NumGreater(parseInt(memo), parseInt(Head(versions)))
            THEN Head(versions) ELSE memo)

\* the reduce of getDatabaseVersion over the rows the query returned
RECURSIVE ReduceVersions(_, _)
ReduceVersions(versions, memo) ==
    IF versions = <<>> THEN memo
    ELSE ReduceVersions(Tail(versions),
            IF NumGreater(parseInt(Head(versions)), parseInt(memo))
            THEN Head(versions) ELSE memo)

\* a row whose value makes the reduce throw
Unrecognised(versions) == \E i \in 1..Len(versions) : isNaN(versions[i])

\* the value getDatabaseVersion resolves with for the rows `versions`
ResolveVersion(versions) ==
    LET reduced == ReduceVersions(versions, initialVersion)
    IN  IF reduced = Undefined \/ Len(reduced) = 0 THEN initialVersion ELSE reduced

\* getDefaultDatabaseVersion() that reads the default settings on every call
\* and leaves the cache as it is
getDefaultDatabaseVersionNotCached == defaultDatabaseVersion

\* getDefaultDatabaseVersion(): the cache after the call
getDefaultDatabaseVersion ==
    IF defaultDatabaseVersion = Undefined \/ defaultDatabaseVersion = <<>>
    THEN DefaultSettingsVersion
    ELSE defaultDatabaseVersion

\* the loop of migrateUpFromVersion: versions from currVersion up to, not
\* including, maxVersion; hangs when the loop is still running after `fuel`
\* iterations
RECURSIVE VersionsUp(_, _, _)
VersionsUp(currVersion, maxVersion, fuel) ==
    IF currVersion = maxVersion THEN [hangs |-> FALSE, versions |-> <<>>]
    ELSE IF fuel = 0 THEN [hangs |-> TRUE, versions |-> <<>>]
    ELSE LET rest == VersionsUp(getVersionAfter(currVersion), maxVersion, fuel - 1)
         IN  [hangs |-> rest.hangs, versions |-> <<currVersion>> \o rest.versions]

upTask(taskVersion) == <<"up", taskVersion>>

\* the loop of migrateDownFromVersion: versions from currVersion down to, not
\* including, minVersion; hangs when the loop is still running after `fuel`
\* iterations
RECURSIVE VersionsDown(_, _, _)
VersionsDown(currVersion, minVersion, fuel) ==
    IF currVersion = minVersion THEN [hangs |-> FALSE, versions |-> <<>>]
    ELSE IF fuel = 0 THEN [hangs |-> TRUE, versions |-> <<>>]
    ELSE LET rest == VersionsDown(getVersionBefore(currVersion), minVersion, fuel - 1)
         IN  [hangs |-> rest.hangs, versions |-> <<currVersion>> \o rest.versions]

downTask(taskVersion) == <<"down", taskVersion>>

\* a down task whose module cannot be loaded throws inside the try block
ThrowsDown(cmd) == cmd[1] = "down" /\ cmd[2] \notin StepCatalog

\* the tasks of self.migrateDownFromVersion(initialVersion), which the catch
\* block of a down task returns (line 429)
downTasksFromInitialVersion ==
    Map(VersionsDown(initialVersion, getVersionBefore(initialVersion), MaxLoop).versions,
        downTask)

\* the catch block of the down tasks at the head of `commands` (lines
\* 427-430): the error is logged and the tasks of
\* migrateDownFromVersion(initialVersion) run in the place of the task that
\* threw, before the tasks that follow it
RECURSIVE Caught(_, _)
Caught(commands, fuel) ==
    IF commands = <<>> \/ ~ThrowsDown(Head(commands)) \/ fuel = 0
    THEN [log |-> <<>>, commands |-> commands]
    ELSE LET rest == Caught(downTasksFromInitialVersion \o Tail(commands), fuel - 1)
         IN  [log |-> <<Ev("call", "logError", Head(commands)[2])>> \o rest.log,
              commands |-> rest.commands]

-----------------------------------------------------------------------------
(* Promise plumbing: how a callback ends *)

Control(p, pa, q, tr, fl, err) ==
    /\ pc' = p
    /\ path' = pa
    /\ queue' = q
    /\ trace' = tr
    /\ inflight' = fl
    /\ initError' = err

\* init()'s promise fulfils
Resolve(pa, tr, fl) == Control("resolved", pa, <<>>, tr, fl, NoError)

\* init()'s promise rejects with err: no handler of init() sits after the
\* callback that returned the rejected promise
Reject(pa, err, tr, fl) == Control("rejected", pa, <<>>, tr, fl, err)

\* errors.logErrorAndExit(headline, detail): the sink ends the process
logErrorAndExit(pa, headline, tr) ==
    Control("exited", pa, <<>>,
            Append(tr, Ev("call", "logErrorAndExit", <<headline>>)), inflight, NoError)

\* setDatabaseVersion(): the update statement is issued
setDatabaseVersion(pa, tr, fl) ==
    Control("setDatabaseVersion", pa, <<>>,
            Append(tr, Started("updateVersion", <<"databaseVersion">>)), fl, NoError)

\* fixtures.populateFixtures() is called
populateFixtures(pa, tr, fl) ==
    Control("populateFixtures", pa, <<>>,
            Append(tr, Started("populateFixtures", NoArg)), fl, NoError)

\* the continuation of a sequence that leaves the fixtures out
AfterSequenceWithoutFixtures(pa, tr, fl) ==
    IF pa = "upgrade" THEN setDatabaseVersion(pa, tr, fl)
    ELSE IF pa = "reset" THEN Resolve(pa, tr, fl)
    ELSE Control("populateDefaults", pa, <<>>,
                 Append(tr, Started("populateDefaults", NoArg)), fl, NoError)

\* a sequence of init() followed by the fixtures on every path
AfterSequenceAlwaysPopulates(pa, tr, fl) ==
    IF pa = "reset" THEN Resolve(pa, tr, fl)
    ELSE populateFixtures(pa, tr, fl)

\* a sequence followed by the version write on every path
AfterSequenceAlwaysWrites(pa, tr, fl) == setDatabaseVersion(pa, tr, fl)

\* what follows the last command of a sequence: the version write of the
\* upgrade path (lines 180-183, 402-405), the fixtures of a fresh install
\* (lines 227-229, 365-367), nothing after reset (line 215)
AfterSequence(pa, tr, fl) ==
    IF pa = "upgrade" THEN setDatabaseVersion(pa, tr, fl)
    ELSE IF pa = "reset" THEN Resolve(pa, tr, fl)
    ELSE populateFixtures(pa, tr, fl)

\* a task of the versioned-step variant whose module cannot be loaded throws
\* inside the try block: errors.logError(e), then a rejection
Throws(cmd) == cmd[1] = "up" /\ cmd[2] \notin StepCatalog

\* sequence(commands) / series(tasks): start the first command, or go on
\* when there is none
startSequence(tasks, pa, tr, fl) ==
    IF tasks = <<>> THEN AfterSequence(pa, tr, fl)
    ELSE IF Throws(Head(tasks))
    THEN Reject(pa, ErrorObject("Cannot find module", Head(tasks)),
                Append(tr, Ev("call", "logError", Head(tasks)[2])), fl)
    ELSE Control("sequence", pa, tasks,
                 Append(tr, Started(Head(tasks)[1], Head(tasks)[2])), fl, NoError)

\* the same when the task at the head is a down task that throws: what its
\* catch block returns runs in its place
sequence(commands, pa, tr, fl) ==
    IF commands = <<>> \/ ~ThrowsDown(Head(commands))
    THEN startSequence(commands, pa, tr, fl)
    ELSE LET caught == Caught(commands, MaxLoop)
         IN  startSequence(caught.commands, pa, tr \o caught.log, fl)

\* migrateUpFreshDb's commands built in reverse, as reset builds its own
migrateUpFreshDbCommandsReversed == Reverse(Map(schemaTables, createTable))

\* migrateUpFreshDb of the diff-based variant: a createTable per Registry
\* table, in declaration order
migrateUpFreshDbCommands == Map(schemaTables, createTable)

\* migrateUpFreshDb of the versioned-step variant: the initial step's up()
migrateUpFreshDbSteps == <<upTask(initialVersion)>>

migrateUpFreshDb(tr) ==
    sequence(IF variant = "diff" THEN migrateUpFreshDbCommands ELSE migrateUpFreshDbSteps,
             "fresh", tr, inflight)

\* a rejection handler that takes no error for "not yet created"
IsFreshInstallErrorNever(err) == FALSE

\* the test of init()'s rejection handler for "the database has not yet been
\* created": err.message || err === '...' in the diff-based variant (line
\* 194), err === '...' in the versioned-step variant (line 335)
IsFreshInstallError(err) ==
    IF variant = "diff"
    THEN (err.obj /\ err.msg # "") \/ (~err.obj /\ err.msg = "Settings table does not exist")
    ELSE ~err.obj /\ err.msg = "Settings table does not exist"

\* the rejection handler of init() (lines 193-202, 334-344)
initRejected(err, tr) ==
    IF IsFreshInstallError(err) THEN migrateUpFreshDb(tr)
    ELSE logErrorAndExit("fatal", "There is a problem with the database", tr)

\* the commands of migrateUp concatenated additions first
migrateUpCommandsAddsFirst(old) ==
    getAddCommands(old, schemaTables) \o getDeleteCommands(old, schemaTables)

\* the commands of migrateUp for the tables the engine listed: deletions,
\* then additions (lines 263-272)
migrateUpCommands(old) ==
    getDeleteCommands(old, schemaTables) \o getAddCommands(old, schemaTables)

\* migrateUp after the optional repair step (lines 262-277)
migrateUpSequence(old, tr, fl) == sequence(migrateUpCommands(old), "upgrade", tr, fl)

\* migrateUp(): getTables() is called (lines 254, 280-291)
migrateUp(tr) ==
    IF SupportedClient
    THEN Control("getTables", "upgrade", <<>>,
                 Append(tr, Started("getTables", NoArg)), inflight, NoError)
    ELSE Reject("upgrade", ErrorString("No support for database client"), tr, inflight)

\* the up steps run from the newest version down
migrateUpFromVersionDescending(version, tr) ==
    LET maxVersion == getVersionAfter(getDefaultDatabaseVersion)
        loop       == VersionsUp(version, maxVersion, MaxLoop)
    IN  IF loop.hangs
        THEN Control("looping", "upgrade", <<>>, tr, inflight, NoError)
        ELSE sequence(Map(Reverse(loop.versions), upTask), "upgrade", tr, inflight)

\* migrateUpFromVersion(version): the tasks of the up steps, run in series
migrateUpFromVersion(version, tr) ==
    LET maxVersion == getVersionAfter(getDefaultDatabaseVersion)
        loop       == VersionsUp(version, maxVersion, MaxLoop)
    IN  IF loop.hangs
        THEN Control("looping", "upgrade", <<>>, tr, inflight, NoError)
        ELSE sequence(Map(loop.versions, upTask), "upgrade", tr, inflight)

\* the fulfilment handler with <= for < in the upgrade test
initResolvedUpgradesEqual(version, tr) ==
    LET defaultVersion == getDefaultDatabaseVersion
    IN  IF StrLess(version, defaultVersion) \/ version = defaultVersion
        THEN IF variant = "diff" THEN migrateUp(tr) ELSE migrateUpFromVersion(version, tr)
        ELSE logErrorAndExit("tooNew",
                 "Your database is not compatible with this version of Ghost", tr)

\* the fulfilment handler with !== for < in the upgrade test
initResolvedUpgradesNewer(version, tr) ==
    LET defaultVersion == getDefaultDatabaseVersion
    IN  IF version = defaultVersion THEN Resolve("upToDate", tr, inflight)
        ELSE IF variant = "diff" THEN migrateUp(tr) ELSE migrateUpFromVersion(version, tr)

\* the fulfilment handler of init() (lines 171-192, 312-332)
initResolved(version, tr) ==
    LET defaultVersion == getDefaultDatabaseVersion
    IN  IF version = defaultVersion THEN Resolve("upToDate", tr, inflight)
        ELSE IF StrLess(version, defaultVersion)
        THEN IF variant = "diff" THEN migrateUp(tr) ELSE migrateUpFromVersion(version, tr)
        ELSE IF StrLess(defaultVersion, version)
        THEN logErrorAndExit("tooNew",
                 "Your database is not compatible with this version of Ghost", tr)
        ELSE Resolve("unknown", tr, inflight)

\* migrateDownFromVersion(version): the tasks of the down steps, run in
\* series (lines 408-436)
migrateDownFromVersion(version, tr) ==
    LET minVersion == getVersionBefore(initialVersion)
        loop       == VersionsDown(version, minVersion, MaxLoop)
    IN  IF loop.hangs
        THEN Control("looping", "reset", <<>>, tr, inflight, NoError)
        ELSE sequence(Map(loop.versions, downTask), "reset", tr, inflight)

\* the fulfilment handler of reset() in the versioned-step variant (lines
\* 352-355)
resetResolved(version, tr) == migrateDownFromVersion(version, tr)

\* the rejection handler of reset() in the versioned-step variant, whatever
\* the error (lines 355-358)
resetRejected(tr) == migrateDownFromVersion(initialVersion, tr)

\* the handlers getDatabaseVersion()'s promise was given by the call that
\* runs: reset() of the versioned-step variant, or init()
versionResolved(version, tr) ==
    IF path = "reset" THEN resetResolved(version, tr) ELSE initResolved(version, tr)

versionRejected(err, tr) ==
    IF path = "reset" THEN resetRejected(tr) ELSE initRejected(err, tr)

-----------------------------------------------------------------------------
(* The initial state: a database in any state the program or an older       *)
(* version of it leaves behind, and a process that has not called init()    *)

TypeOfPostColumn == {"text", "mediumtext"}

\* marker values that are not three-digit zero-padded numbers: not a
\* number, short, unpadded, over-padded
MalformedMarkers == {<<"a">>, <<"1">>, <<"4">>, <<"0", "0", "0", "5">>}

\* marker rows of which at least one holds a malformed value
MalformedMarkerRows ==
    {r \in UNION {[K -> MalformedMarkers \cup {DefaultSettingsVersion}] :
                        K \in SUBSET MarkerKeys} :
        \E k \in DOMAIN r : r[k] \in MalformedMarkers}

\* a process that has not called init(), on a database whose settings table,
\* when it exists, holds one of `rows`
InitOn(rows) ==
    /\ variant \in {"diff", "step"}
    /\ client \in Clients
    /\ tables \in SUBSET (RegistryTables \cup LegacyTables
                          \cup (IF client = "sqlite3" THEN InternalTables ELSE {}))
    /\ settings \in (IF "settings" \in tables THEN rows ELSE {NoRows})
    /\ postCols \in (IF client = "mysql" /\ "posts" \in tables
                     THEN [PostColumns -> TypeOfPostColumn] ELSE {Widened})
    /\ fixtures = (RegistryTables \subseteq tables)
    /\ defaults = ("settings" \in tables)
    /\ defaultDatabaseVersion = Undefined
    /\ databaseVersion = Undefined
    /\ pc = "idle"
    /\ path = "unknown"
    /\ queue = <<>>
    /\ inflight = {}
    /\ trace = <<>>
    /\ initError = NoError
    /\ tables0 = tables
    /\ settings0 = settings
    /\ oldTables = <<>>
    /\ previous = <<"none", "idle">>

Init == InitOn(MarkerRows)

\* the same on a database whose marker rows were not written by the program
InitAnyMarker == InitOn(MalformedMarkerRows)

ProcessUnchanged == UNCHANGED <<variant, client, tables0, settings0, previous>>

-----------------------------------------------------------------------------
(* The steps *)

\* the call that ran last and how it ended
LastRun == <<IF path = "reset" THEN "reset" ELSE "init", pc>>

\* the last run as the next call finds it
PreviousAtCall == IF pc = "idle" THEN previous ELSE LastRun

\* init() is called: getDatabaseVersion() asks whether the settings table
\* exists (lines 164-171, 40-41)
init ==
    /\ pc \in {"idle", "resolved", "rejected"}
    /\ inflight = {}
    /\ tables0' = tables
    /\ settings0' = settings
    /\ databaseVersion' = Undefined
    /\ oldTables' = <<>>
    /\ previous' = PreviousAtCall
    /\ Control("hasTable", "unknown", <<>>,
               <<Started("hasTable", <<"settings">>)>>, inflight, NoError)
    /\ DbUnchanged
    /\ UNCHANGED <<variant, client, defaultDatabaseVersion>>

\* a reset that drops the tables the database holds
resetCommandsOfLiveTables ==
    Map(CHOOSE live \in Listings(tables) : TRUE, deleteTable)

\* the commands of reset in declaration order
resetCommandsInDeclarationOrder == Map(schemaTables, deleteTable)

\* reset of the diff-based variant: a deleteTable per Registry table, in
\* reverse declaration order (lines 208-213)
resetCommands == Reverse(Map(schemaTables, deleteTable))

\* reset() is called: the diff-based variant starts its drops (lines
\* 207-216), the versioned-step variant asks getDatabaseVersion() for the
\* version to come down from (lines 349-352)
reset ==
    /\ pc \in {"idle", "resolved", "rejected"}
    /\ inflight = {}
    /\ tables0' = tables
    /\ settings0' = settings
    /\ databaseVersion' = Undefined
    /\ oldTables' = <<>>
    /\ previous' = PreviousAtCall
    /\ IF variant = "diff"
       THEN sequence(resetCommands, "reset", <<>>, inflight)
       ELSE Control("hasTable", "reset", <<>>,
                    <<Started("hasTable", <<"settings">>)>>, inflight, NoError)
    /\ DbUnchanged
    /\ UNCHANGED <<variant, client, defaultDatabaseVersion>>

\* the process is started again after the fatal-exit sink ended it
restart ==
    /\ pc = "exited"
    /\ defaultDatabaseVersion' = Undefined
    /\ databaseVersion' = Undefined
    /\ oldTables' = <<>>
    /\ previous' = LastRun
    /\ Control("idle", "unknown", <<>>, <<>>, {}, NoError)
    /\ DbUnchanged
    /\ UNCHANGED <<variant, client, tables0, settings0>>

\* the callback of knex.schema.hasTable('settings') (lines 41-66)
hasTable ==
    /\ pc = "hasTable"
    /\ \E ok \in BOOLEAN :
        LET arg == <<"settings">> IN
        IF ~ok
        THEN versionRejected(DbError("hasTable", arg),
                             Append(trace, Failed("hasTable", arg)))
        ELSE IF "settings" \in tables
        THEN Control("select", path, <<>>,
                     trace \o <<Completed("hasTable", arg), Started("select", arg)>>,
                     inflight, NoError)
        ELSE versionRejected(ErrorObject("Settings table does not exist", <<>>),
                             Append(trace, Completed("hasTable", arg)))
    /\ DbUnchanged
    /\ ProcessUnchanged
    /\ UNCHANGED <<defaultDatabaseVersion, databaseVersion, oldTables>>

\* the callback of the select of the marker rows, and the handler of init()
\* or reset() that its result reaches (lines 49-63, 171-202, 352-358)
getDatabaseVersion ==
    /\ pc = "select"
    /\ \E ok \in BOOLEAN :
        LET arg == <<"settings">> IN
        IF ~ok
        THEN /\ versionRejected(DbError("select", arg),
                                Append(trace, Failed("select", arg)))
             /\ UNCHANGED <<defaultDatabaseVersion, databaseVersion>>
        ELSE \E keys \in Listings(DOMAIN settings) :
            LET versions == [i \in 1..Len(keys) |-> settings[keys[i]]]
                tr       == Append(trace, Completed("select", arg))
            IN  IF Unrecognised(versions)
                THEN /\ versionRejected(throwError("Database version is not recognised"), tr)
                     /\ UNCHANGED <<defaultDatabaseVersion, databaseVersion>>
                ELSE /\ databaseVersion' = ResolveVersion(versions)
                     /\ defaultDatabaseVersion' =
                            IF path = "reset" THEN defaultDatabaseVersion
                            ELSE getDefaultDatabaseVersion
                     /\ versionResolved(ResolveVersion(versions), tr)
    /\ DbUnchanged
    /\ ProcessUnchanged
    /\ UNCHANGED oldTables

\* the callbacks of getTables() in migrateUp (lines 254-277): on MySQL with
\* tables present the repair step's query is issued, otherwise the commands
\* are built and the sequence starts
getTablesDone ==
    /\ pc = "getTables"
    /\ \E ok \in BOOLEAN :
        IF ~ok
        THEN /\ Reject(path, DbError("getTables", NoArg),
                       Append(trace, Failed("getTables", NoArg)), inflight)
             /\ UNCHANGED oldTables
        ELSE \E old \in Listings(getTables) :
            LET tr == Append(trace, Completed("getTables", NoArg)) IN
            /\ oldTables' = old
            /\ IF old # <<>> /\ client = "mysql"
               THEN Control("showFields", path, <<>>,
                            Append(tr, Started("showFields", <<"posts">>)),
                            inflight, NoError)
               ELSE migrateUpSequence(old, tr, inflight)
    /\ DbUnchanged
    /\ ProcessUnchanged
    /\ UNCHANGED <<defaultDatabaseVersion, databaseVersion>>

\* checkMySQLPostTable without the test of entry.Type
ColumnsToAlterWhateverType == PostColumns

\* the columns checkMySQLPostTable issues an ALTER for
ColumnsToAlter == {c \in PostColumns : postCols[c] # "mediumtext"}

\* the callback of SHOW FIELDS in checkMySQLPostTable (lines 241-249): one
\* ALTER per under-sized column is issued and the array of their promises is
\* returned, which fulfils the promise of checkMySQLPostTable at once; the
\* callbacks of lines 257 and 262 follow
checkMySQLPostTable ==
    /\ pc = "showFields"
    /\ \E ok \in BOOLEAN :
        LET arg == <<"posts">> IN
        IF ~(ok /\ "posts" \in tables)
        THEN Reject(path, DbError("showFields", arg),
                    Append(trace, Failed("showFields", arg)), inflight)
        ELSE \E cols \in Listings(ColumnsToAlter) :
            migrateUpSequence(oldTables,
                Append(trace, Completed("showFields", arg))
                    \o [i \in 1..Len(cols) |-> Started("alter", <<cols[i]>>)],
                inflight \cup ColumnsToAlter)
    /\ DbUnchanged
    /\ ProcessUnchanged
    /\ UNCHANGED <<defaultDatabaseVersion, databaseVersion, oldTables>>

\* an ALTER TABLE posts MODIFY ... MEDIUMTEXT statement completes; nothing
\* waits for it and nothing handles its failure
alterDone ==
    /\ inflight # {}
    /\ \E c \in inflight, ok \in BOOLEAN :
        /\ inflight' = inflight \ {c}
        /\ IF ok /\ "posts" \in tables
           THEN /\ postCols' = [postCols EXCEPT ![c] = "mediumtext"]
                /\ trace' = Append(trace, Completed("alter", <<c>>))
           ELSE /\ postCols' = postCols
                /\ trace' = Append(trace, Failed("alter", <<c>>))
    /\ UNCHANGED <<tables, settings, fixtures, defaults>>
    /\ ProcessUnchanged
    /\ UNCHANGED <<defaultDatabaseVersion, databaseVersion, oldTables,
                   pc, path, queue, initError>>

\* a sequence that goes on with the next command after a failure
sequenceStepGoesOn ==
    /\ pc = "sequence"
    /\ LET cmd == Head(queue) IN
       \E ok \in BOOLEAN :
        IF ok /\ Accepts(cmd)
        THEN /\ CommandEffect(cmd)
             /\ sequence(Tail(queue), path,
                         Append(trace, Completed(cmd[1], cmd[2])), inflight)
        ELSE /\ DbUnchanged
             /\ sequence(Tail(queue), path,
                         Append(trace, Failed(cmd[1], cmd[2])), inflight)
    /\ ProcessUnchanged
    /\ UNCHANGED <<defaultDatabaseVersion, databaseVersion, oldTables>>

\* the command at the head of the sequence completes (when/sequence): the
\* next one starts, a failure rejects the sequence
sequenceStep ==
    /\ pc = "sequence"
    /\ LET cmd == Head(queue) IN
       \E ok \in BOOLEAN :
        IF ok /\ Accepts(cmd)
        THEN /\ CommandEffect(cmd)
             /\ sequence(Tail(queue), path,
                         Append(trace, Completed(cmd[1], cmd[2])), inflight)
        ELSE /\ DbUnchanged
             /\ Reject(path, DbError(cmd[1], cmd[2]),
                       Append(trace, Failed(cmd[1], cmd[2])), inflight)
    /\ ProcessUnchanged
    /\ UNCHANGED <<defaultDatabaseVersion, databaseVersion, oldTables>>

\* the rows after knex('settings').where('key', 'databaseVersion').update(...)
UpdateDatabaseVersion(rows, value) ==
    [k \in DOMAIN rows |-> IF k = "databaseVersion" THEN value ELSE rows[k]]

\* the update of setDatabaseVersion completes (lines 69-73)
setDatabaseVersionDone ==
    /\ pc = "setDatabaseVersion"
    /\ \E ok \in BOOLEAN :
        LET arg == <<"databaseVersion">> IN
        IF ok /\ "settings" \in tables
        THEN /\ settings' = UpdateDatabaseVersion(settings, defaultDatabaseVersion)
             /\ Resolve(path, Append(trace, Completed("updateVersion", arg)), inflight)
        ELSE /\ settings' = settings
             /\ Reject(path, DbError("updateVersion", arg),
                       Append(trace, Failed("updateVersion", arg)), inflight)
    /\ UNCHANGED <<tables, postCols, fixtures, defaults>>
    /\ ProcessUnchanged
    /\ UNCHANGED <<defaultDatabaseVersion, databaseVersion, oldTables>>

\* fixtures.populateFixtures() completes; Settings.populateDefaults() is
\* called (lines 229-231, 367-371)
populateFixturesDone ==
    /\ pc = "populateFixtures"
    /\ \E ok \in BOOLEAN :
        IF ok /\ RegistryTables \subseteq tables
        THEN /\ fixtures' = TRUE
             /\ Control("populateDefaults", path, <<>>,
                        trace \o <<Completed("populateFixtures", NoArg),
                                   Started("populateDefaults", NoArg)>>,
                        inflight, NoError)
        ELSE /\ fixtures' = fixtures
             /\ Reject(path, DbError("populateFixtures", NoArg),
                       Append(trace, Failed("populateFixtures", NoArg)), inflight)
    /\ UNCHANGED <<tables, settings, postCols, defaults>>
    /\ ProcessUnchanged
    /\ UNCHANGED <<defaultDatabaseVersion, databaseVersion, oldTables>>

\* the rows after Settings.populateDefaults(): every default setting that
\* has no row gets one with its defaultValue
PopulateDefaults(rows) ==
    [k \in DOMAIN rows \cup {"databaseVersion"} |->
        IF k \in DOMAIN rows THEN rows[k] ELSE DefaultSettingsVersion]

\* Settings.populateDefaults() completes
populateDefaultsDone ==
    /\ pc = "populateDefaults"
    /\ \E ok \in BOOLEAN :
        IF ok /\ "settings" \in tables
        THEN /\ settings' = PopulateDefaults(settings)
             /\ defaults' = TRUE
             /\ Resolve(path, Append(trace, Completed("populateDefaults", NoArg)), inflight)
        ELSE /\ UNCHANGED <<settings, defaults>>
             /\ Reject(path, DbError("populateDefaults", NoArg),
                       Append(trace, Failed("populateDefaults", NoArg)), inflight)
    /\ UNCHANGED <<tables, postCols, fixtures>>
    /\ ProcessUnchanged
    /\ UNCHANGED <<defaultDatabaseVersion, databaseVersion, oldTables>>

Next ==
    \/ init
    \/ reset
    \/ restart
    \/ hasTable
    \/ getDatabaseVersion
    \/ getTablesDone
    \/ checkMySQLPostTable
    \/ alterDone
    \/ sequenceStep
    \/ setDatabaseVersionDone
    \/ populateFixturesDone
    \/ populateDefaultsDone

Spec == Init /\ [][Next]_vars

SpecAnyMarker == InitAnyMarker /\ [][Next]_vars

-----------------------------------------------------------------------------
(* The version helpers called on their own: getVersionAfter and              *)
(* getVersionBefore are exported methods of the versioned-step variant       *)

\* strings that are not three decimal digits
UnusualVersions ==
    MalformedMarkers \cup {<<>>, <<"-", "1">>, <<"1", "2", "a">>, <<"-", "1", "2">>}

\* the strings the helpers are called with
VersionInputs ==
    {PadZeros(String(n)) : n \in 0..MaxVersionNumber} \cup UnusualVersions

\* a process that has called nothing yet, on an empty database
InitVersions ==
    /\ variant = "step"
    /\ client = "sqlite3"
    /\ tables = {}
    /\ settings = NoRows
    /\ postCols = Widened
    /\ fixtures = FALSE
    /\ defaults = FALSE
    /\ defaultDatabaseVersion = Undefined
    /\ databaseVersion = Undefined
    /\ pc = "idle"
    /\ path = "unknown"
    /\ queue = <<>>
    /\ inflight = {}
    /\ trace = <<>>
    /\ initError = NoError
    /\ tables0 = tables
    /\ settings0 = settings
    /\ oldTables = <<>>
    /\ previous = <<"none", "idle">>

\* the arguments of the next helper call: any string for the first call,
\* what the call before returned for one that follows
NextArguments ==
    IF trace = <<>> THEN VersionInputs ELSE {trace[Len(trace)][3]}

\* a helper is called with currVersion and returns nextVersion
HelperCall(name, currVersion, nextVersion) ==
    /\ trace' = trace \o <<Ev("call", name, currVersion), Ev("return", name, nextVersion)>>
    /\ UNCHANGED <<variant, client, tables, settings, postCols, fixtures, defaults,
                   defaultDatabaseVersion, databaseVersion, pc, path, queue, inflight,
                   initError, tables0, settings0, oldTables, previous>>

\* getVersionAfter(currVersion) is called (lines 439-457)
getVersionAfterCalled ==
    /\ Len(trace) < 2 * MaxCalls
    /\ \E currVersion \in NextArguments :
        HelperCall("getVersionAfter", currVersion, getVersionAfter(currVersion))

\* getVersionBefore(currVersion) is called (lines 459-476)
getVersionBeforeCalled ==
    /\ Len(trace) < 2 * MaxCalls
    /\ \E currVersion \in NextArguments :
        HelperCall("getVersionBefore", currVersion, getVersionBefore(currVersion))

NextVersions ==
    \/ getVersionAfterCalled
    \/ getVersionBeforeCalled

SpecVersions == InitVersions /\ [][NextVersions]_vars

-----------------------------------------------------------------------------
(* createTable's callback on one column of the Registry (lines 76-112)        *)

\* what a descriptor holds for a flag: no such property, true or false
FlagValues == {"absent", "true", "false"}

\* what a descriptor holds for a property that is used by its presence alone
PresenceValues == {"absent", "present"}

\* the column types: text, string and one that is neither
ColumnTypes == {"text", "string", "integer"}

\* schema[table][key]: the column descriptors the Registry can declare
ColumnDescriptors ==
    [type : ColumnTypes, fieldtype : PresenceValues, maxlength : PresenceValues,
     nullable : FlagValues, primary : FlagValues, unique : FlagValues,
     unsigned : FlagValues, references : PresenceValues,
     inTable : PresenceValues, defaultTo : PresenceValues]

\* hasOwnProperty(name) of a descriptor
hasOwnProperty(value) == value # "absent"

When(condition, calls) == IF condition THEN calls ELSE <<>>

\* the column is made from its type: with the fieldtype for a text that has
\* one, with the maxlength for a string that has one, bare otherwise
ColumnOfType(d) ==
    IF d.type = "text" /\ hasOwnProperty(d.fieldtype) THEN <<"type with fieldtype">>
    ELSE IF d.type = "string" /\ hasOwnProperty(d.maxlength) THEN <<"type with maxlength">>
    ELSE <<"type">>

\* the builder in which a nullable column gets no further attribute
ColumnCallsNullableAlone(d) ==
    ColumnOfType(d)
    \o (IF hasOwnProperty(d.nullable) /\ d.nullable = "true" THEN <<"nullable">>
        ELSE <<"notNullable">>
             \o When(hasOwnProperty(d.primary) /\ d.primary = "true", <<"primary">>)
             \o When(hasOwnProperty(d.unique) /\ d.unique = "true", <<"unique">>)
             \o When(hasOwnProperty(d.unsigned) /\ d.unsigned = "true", <<"unsigned">>)
             \o When(hasOwnProperty(d.references) /\ hasOwnProperty(d.inTable),
                     <<"references", "inTable">>)
             \o When(hasOwnProperty(d.defaultTo), <<"defaultTo">>))

\* the calls createTable's callback makes on the column builder for one
\* descriptor, in order (lines 81-110)
ColumnCalls(d) ==
    ColumnOfType(d)
    \o (IF hasOwnProperty(d.nullable) /\ d.nullable = "true" THEN <<"nullable">>
        ELSE <<"notNullable">>)
    \o When(hasOwnProperty(d.primary) /\ d.primary = "true", <<"primary">>)
    \o When(hasOwnProperty(d.unique) /\ d.unique = "true", <<"unique">>)
    \o When(hasOwnProperty(d.unsigned) /\ d.unsigned = "true", <<"unsigned">>)
    \o When(hasOwnProperty(d.references) /\ hasOwnProperty(d.inTable),
            <<"references", "inTable">>)
    \o When(hasOwnProperty(d.defaultTo), <<"defaultTo">>)

\* the callback of createTable handles one column: the descriptor it reads
\* and the calls it makes
columnBuilt ==
    /\ trace = <<>>
    /\ \E d \in ColumnDescriptors :
        trace' = <<Ev("call", "column", <<d>>), Ev("return", "column", ColumnCalls(d))>>
    /\ UNCHANGED <<variant, client, tables, settings, postCols, fixtures, defaults,
                   defaultDatabaseVersion, databaseVersion, pc, path, queue, inflight,
                   initError, tables0, settings0, oldTables, previous>>

NextColumns == columnBuilt

SpecColumns == InitVersions /\ [][NextColumns]_vars

-----------------------------------------------------------------------------
(* Vocabulary of the properties *)

Events == 1..Len(trace)

IsEvent(i, ph, op) == trace[i][1] = ph /\ trace[i][2] = op

\* operation op has been issued in this run
Issued(op) == \E i \in Events : IsEvent(i, "start", op)

TableOps == {"createTable", "dropTableIfExists"}

DdlOps == TableOps \cup {"alter", "up"}

\* no create, drop, alter or migration step has been issued in this run
NoDdl == \A i \in Events : trace[i][2] \notin DdlOps

\* no statement that writes rows has been issued in this run
NoRowWrites ==
    \A i \in Events :
        trace[i][2] \notin {"updateVersion", "populateFixtures", "populateDefaults"}

\* calls of the fatal-exit sink in this run
FatalExits == {i \in Events : IsEvent(i, "call", "logErrorAndExit")}

\* the init() run resolved a version, and its number
HasResolved == databaseVersion # Undefined /\ path # "reset"

ResolvedNumber == parseInt(databaseVersion).val

\* the tables of the database that are not the engine's own
UserTables == tables \ InternalTables

\* what a getDatabaseVersion() call on the present database can resolve with
FollowingVersions ==
    {ResolveVersion([i \in 1..Len(keys) |-> settings[keys[i]]]) :
        keys \in Listings(DOMAIN settings)}

\* init() has completed successfully
Completes == pc = "resolved" /\ path # "reset"

\* reset() has completed successfully
ResetCompletes == pc = "resolved" /\ path = "reset"

-----------------------------------------------------------------------------
(* C1..C5 *)

\* C1: when init() of the diff-based variant completes successfully on a
\* database whose settings table exists and whose resolved version is lower
\* than the target, the live tables are exactly the Registry's tables.
C1_TablesEqualRegistry ==
    (/\ variant = "diff"
     /\ Completes
     /\ "settings" \in tables0
     /\ HasResolved
     /\ ResolvedNumber < TargetNumber)
    => UserTables = RegistryTables

\* an upgrade that completed on a database that had a legacy table and
\* lacked a Registry table
C1_Witness ==
    /\ variant = "diff"
    /\ Completes
    /\ HasResolved
    /\ ResolvedNumber < TargetNumber
    /\ "old_widgets" \in tables0
    /\ "users" \notin tables0
    /\ UserTables = RegistryTables

\* C2: after init() completes successfully on a database whose resolved
\* version is lower than the target, whichever marker key held it, a
\* following getDatabaseVersion() returns the target version.
C2_FollowingVersionIsTarget ==
    (/\ Completes
     /\ HasResolved
     /\ ResolvedNumber < TargetNumber
     /\ \E k \in DOMAIN settings0 : settings0[k] = databaseVersion)
    => /\ "settings" \in tables
       /\ FollowingVersions = {DefaultSettingsVersion}

\* C3: when the resolved version equals the target version, init() issues no
\* DDL, does not write the version marker and runs neither fixture nor
\* default-settings population.
C3_UpToDateDoesNothing ==
    (HasResolved /\ ResolvedNumber = TargetNumber)
    => /\ NoDdl
       /\ NoRowWrites
       /\ ~Issued("getTables")
       /\ tables = tables0
       /\ settings = settings0
       /\ FatalExits = {}
       /\ Completes

\* an up-to-date run on a database whose tables differ from the Registry
C3_Witness ==
    /\ HasResolved
    /\ ResolvedNumber = TargetNumber
    /\ Completes
    /\ "old_widgets" \in tables
    /\ "posts" \notin tables

\* C4: when the resolved version is higher than the target version, init()
\* issues no DDL and no write to the settings table and calls the fatal-exit
\* sink exactly once.
C4_TooNewExitsUntouched ==
    (HasResolved /\ ResolvedNumber > TargetNumber)
    => /\ NoDdl
       /\ NoRowWrites
       /\ tables = tables0
       /\ settings = settings0
       /\ Cardinality(FatalExits) = 1
       /\ pc = "exited"

\* a run that found a newer database with tables that differ from the
\* Registry
C4_Witness ==
    /\ HasResolved
    /\ ResolvedNumber > TargetNumber
    /\ pc = "exited"
    /\ "old_widgets" \in tables
    /\ "users" \notin tables

\* getDatabaseVersion() of this run failed because the settings table does
\* not exist: hasTable answered, and answered no
SettingsTableMissing ==
    /\ Len(trace) >= 2
    /\ trace[2] = Completed("hasTable", <<"settings">>)
    /\ "settings" \notin tables0

\* C5: in both variants, when getDatabaseVersion() fails because the
\* settings table does not exist, init() takes the fresh-install path and
\* does not call the fatal-exit sink.
C5_MissingSettingsIsFreshInstall ==
    SettingsTableMissing => (path = "fresh" /\ FatalExits = {})

-----------------------------------------------------------------------------
(* C6..C10 *)

\* positions of the events of one kind
Positions(ph, op) == {i \in Events : IsEvent(i, ph, op)}

\* the event of phase ph for operation op on arg lies before position j
Before(j, ph, op, arg) == \E i \in Events : i < j /\ trace[i] = Ev(ph, op, arg)

\* the number of the Registry table, in declaration order
TableNumber(t) == CHOOSE n \in 1..Len(schemaTables) : schemaTables[n] = t

\* C6: starting from an empty database, after init() completes every
\* Registry table exists, fixtures and default settings have been populated,
\* and getDatabaseVersion() returns the default version.
C6_EmptyDatabaseBootstrapped ==
    (tables0 = {} /\ Completes)
    => /\ RegistryTables \subseteq tables
       /\ fixtures
       /\ defaults
       /\ FollowingVersions = {DefaultSettingsVersion}

\* a completed run on an empty database
C6_Witness ==
    /\ tables0 = {}
    /\ settings0 = NoRows
    /\ Completes
    /\ path = "fresh"
    /\ tables = RegistryTables

\* C7: on the fresh-install path createTable is invoked once per Registry
\* table in declaration order, each after the previous one completed;
\* fixture population starts after the last createTable completed, and
\* default-settings population after fixture population completed.
C7_FreshInstallOrder ==
    (variant = "diff" /\ path = "fresh")
    => /\ \A j \in Positions("start", "createTable") :
            LET t == trace[j][3][1] IN
            /\ t \in RegistryTables
            /\ \A i \in Positions("start", "createTable") :
                    i # j => trace[i][3] # trace[j][3]
            /\ \A n \in 1..(TableNumber(t) - 1) :
                    Before(j, "done", "createTable", <<schemaTables[n]>>)
       /\ \A j \in Positions("start", "populateFixtures") :
            /\ \A n \in 1..Len(schemaTables) :
                    Before(j, "done", "createTable", <<schemaTables[n]>>)
            /\ Cardinality(Positions("start", "populateFixtures")) = 1
       /\ \A j \in Positions("start", "populateDefaults") :
            /\ Before(j, "done", "populateFixtures", NoArg)
            /\ Cardinality(Positions("start", "populateDefaults")) = 1
       /\ Completes =>
            /\ Issued("populateFixtures")
            /\ Issued("populateDefaults")
       /\ Positions("start", "dropTableIfExists") = {}

\* a fresh install that ran to the end
C7_Witness ==
    /\ variant = "diff"
    /\ path = "fresh"
    /\ Completes
    /\ Cardinality(Positions("done", "createTable")) = Len(schemaTables)

\* the table operations migrateUp is to run on the database the run began with
PlannedDrops == (tables0 \ InternalTables) \ RegistryTables

PlannedCreates == RegistryTables \ tables0

\* C8: in the upgrade path every dropTableIfExists has completed before the
\* first createTable begins, and the version marker is written only after
\* the last of these operations has completed.
C8_DropsThenCreatesThenVersion ==
    (variant = "diff" /\ path = "upgrade")
    => /\ \A j \in Positions("start", "createTable") :
            /\ \A t \in PlannedDrops : Before(j, "done", "dropTableIfExists", <<t>>)
            /\ \A i \in Positions("start", "dropTableIfExists") : i < j
       /\ \A j \in Positions("start", "updateVersion") :
            /\ \A t \in PlannedDrops : Before(j, "done", "dropTableIfExists", <<t>>)
            /\ \A t \in PlannedCreates : Before(j, "done", "createTable", <<t>>)
            /\ \A i \in Events : trace[i][2] \in TableOps => i < j

\* an upgrade that dropped a table, created one and wrote the version
C8_Witness ==
    /\ variant = "diff"
    /\ path = "upgrade"
    /\ Completes
    /\ Positions("done", "dropTableIfExists") # {}
    /\ Positions("done", "createTable") # {}
    /\ Positions("done", "updateVersion") # {}

\* C9: on MySQL, in the upgrade path, every ALTER of the repair step has
\* completed, successfully or with a failure, before any dropTableIfExists
\* or createTable of the table diff begins.
C9_RepairCompletesBeforeDiff ==
    (client = "mysql" /\ path = "upgrade")
    => \A j \in Events :
        (trace[j][1] = "start" /\ trace[j][2] \in TableOps)
        => \A i \in Positions("start", "alter") :
            \/ Before(j, "done", "alter", trace[i][3])
            \/ Before(j, "fail", "alter", trace[i][3])

\* positions of the failed delete and add operations
FailedTableOps == {i \in Events : trace[i][1] = "fail" /\ trace[i][2] \in TableOps}

\* C10: in the upgrade path, when a delete or add operation fails no later
\* operation of the sequence is started, the version marker is not written,
\* the operations already applied are not undone, and init() reports the
\* error of the failed operation.
C10_FailureAbortsSequence ==
    (path = "upgrade")
    => \A f \in FailedTableOps :
        /\ \A i \in Events :
              (i > f /\ trace[i][1] = "start") => trace[i][2] = "alter"
        /\ ~Issued("updateVersion")
        /\ settings = settings0
        /\ \A i \in Positions("done", "dropTableIfExists") : trace[i][3][1] \notin tables
        /\ \A i \in Positions("done", "createTable") : trace[i][3][1] \in tables
        /\ pc = "rejected"
        /\ initError = DbError(trace[f][2], trace[f][3])

\* an upgrade whose second operation failed after the first was applied
C10_Witness ==
    /\ path = "upgrade"
    /\ pc = "rejected"
    /\ FailedTableOps # {}
    /\ Positions("done", "dropTableIfExists") # {}
    /\ "old_widgets" \in tables0
    /\ "old_widgets" \notin tables

-----------------------------------------------------------------------------
(* C11..C20 *)

\* an operation issued after version resolution has failed (ALTERs aside,
\* which nothing waits for)
OperationFailed ==
    \E i \in Events :
        trace[i][1] = "fail" /\ trace[i][2] \notin {"alter", "hasTable", "select"}

\* C11: every error raised on the fresh-install or upgrade path after version
\* resolution ends in a call of the fatal-exit sink; init() never hands it
\* back as a rejected promise.
C11_ErrorsEndInFatalExit ==
    (path \in {"fresh", "upgrade"} /\ (OperationFailed \/ initError # NoError))
    => /\ pc = "exited"
       /\ FatalExits # {}

\* the select of this run returned a marker row whose value is not a number
NonNumericMarkerRead ==
    /\ \E i \in Events : trace[i] = Completed("select", <<"settings">>)
    /\ \E k \in DOMAIN settings0 : isNaN(settings0[k])

\* C12: when a marker row holds a non-numeric value, version resolution
\* fails and init() ends in the fatal-exit sink without creating, dropping
\* or altering a table; it is not treated as a fresh install nor as '000'.
C12_NonNumericMarkerIsFatal ==
    NonNumericMarkerRead
    => /\ pc = "exited"
       /\ FatalExits # {}
       /\ NoDdl
       /\ path # "fresh"
       /\ ~HasResolved

\* the branch that comparing the two versions as integers selects
NumericBranch ==
    IF ResolvedNumber = TargetNumber THEN "upToDate"
    ELSE IF ResolvedNumber < TargetNumber THEN "upgrade"
    ELSE "tooNew"

\* C13: for every stored value the resolver accepts, init() takes the branch
\* that the numeric order of the resolved and the target version selects.
C13_BranchByNumericOrder ==
    HasResolved => path = NumericBranch

\* the values of the marker rows the run began with
MarkerValues0 == {settings0[k] : k \in DOMAIN settings0}

\* C14: when the settings table exists, getDatabaseVersion() returns the
\* numerically greatest value among the rows keyed 'databaseVersion' and
\* 'currentVersion', and '000' when there is no such row; rows
\* {databaseVersion: '003', currentVersion: '002'} resolve to '003'.
C14_ResolvesGreatestMarker ==
    HasResolved
    => IF MarkerValues0 = {} THEN databaseVersion = initialVersion
       ELSE /\ databaseVersion \in MarkerValues0
            /\ \A v \in MarkerValues0 : parseInt(v).val <= ResolvedNumber

\* two rows that differ, resolved to the greater one
C14_Witness ==
    /\ HasResolved
    /\ settings0 = [databaseVersion |-> <<"0", "0", "3">>,
                    currentVersion |-> <<"0", "0", "4">>]
    /\ databaseVersion = <<"0", "0", "4">>

\* the number of the Registry table in reset's order
ResetNumber(t) == Len(schemaTables) + 1 - TableNumber(t)

\* C15: reset() of the diff-based variant issues dropTableIfExists exactly
\* once for every Registry table, in the reverse of declaration order, each
\* after the previous drop completed, and never writes the version marker.
C15_ResetDropsInReverseOrder ==
    (variant = "diff" /\ path = "reset")
    => /\ \A j \in Positions("start", "dropTableIfExists") :
            LET t == trace[j][3][1] IN
            /\ t \in RegistryTables
            /\ \A i \in Positions("start", "dropTableIfExists") :
                    i # j => trace[i][3] # trace[j][3]
            /\ \A u \in RegistryTables :
                    ResetNumber(u) < ResetNumber(t)
                    => Before(j, "done", "dropTableIfExists", <<u>>)
       /\ \A i \in Events : trace[i][2] = "dropTableIfExists"
       /\ ResetCompletes =>
            /\ Cardinality(Positions("done", "dropTableIfExists")) = Len(schemaTables)
            /\ settings = NoRows

\* a reset that ran to the end on a database with all Registry tables
C15_Witness ==
    /\ variant = "diff"
    /\ ResetCompletes
    /\ RegistryTables \subseteq tables0
    /\ tables \cap RegistryTables = {}

\* this run is an init() of the diff-based variant that follows a reset()
\* that completed
AfterReset ==
    /\ variant = "diff"
    /\ previous = <<"reset", "resolved">>
    /\ path # "reset"

\* the version resolution of this run has reported the settings table missing
ReportedSettingsMissing ==
    /\ Len(trace) >= 2
    /\ trace[2] = Completed("hasTable", <<"settings">>)

AfterInterruptedInit ==
    /\ previous = <<"init", "rejected">>
    /\ path # "reset"

\* the run has ended, one way or another
Ended == pc \in {"resolved", "rejected", "exited"}

\* the failure at position i is the database refusing what the run asked of
\* the database it found, and no fault of the engine
Refused(i) ==
    /\ trace[i][1] = "fail"
    /\ \/ trace[i][2] = "createTable" /\ trace[i][3][1] \in tables0
       \/ /\ trace[i][2] = "up"
          /\ trace[i][3] = initialVersion
          /\ tables0 \cap RegistryTables # {}

\* no operation of this run failed by a fault of the engine
NoEngineFault == \A i \in Events : trace[i][1] = "fail" => Refused(i)

\* init() rejects on the fresh-install and the upgrade path only
RejectsOnInstallOrUpgrade ==
    (pc = "rejected" /\ path # "reset") => path \in {"fresh", "upgrade"}

\* C17: when an init() run was interrupted by a failed operation on the
\* fresh-install or the upgrade path, a later init() run on the database
\* left behind, in which the engine fails nothing, completes successfully
\* with the table set equal to the Registry and the version at the target.
C17_LaterInitCompletes ==
    (AfterInterruptedInit /\ Ended /\ NoEngineFault)
    => /\ Completes
       /\ UserTables = RegistryTables
       /\ FollowingVersions = {DefaultSettingsVersion}

\* a later init() that found part of the Registry's tables without the
\* settings table and was refused the creation of a table
C17_Witness ==
    /\ AfterInterruptedInit
    /\ NoEngineFault
    /\ pc = "rejected"
    /\ path = "fresh"
    /\ "posts" \in tables0
    /\ "settings" \notin tables0

\* the operations a sequence of init() is made of
SequenceOps == TableOps \cup {"up"}

\* C18: in every init() run the version marker is read once, by the one
\* getDatabaseVersion call, and setDatabaseVersion is called at most once,
\* only on the upgrade path and only after every operation of the upgrade
\* sequence has completed successfully, never between two of them.
C18_MarkerReadOnceWrittenLast ==
    (path # "reset" /\ pc # "idle")
    => /\ Cardinality(Positions("start", "hasTable")) = 1
       /\ Cardinality(Positions("start", "select")) <= 1
       /\ Cardinality(Positions("start", "updateVersion")) <= 1
       /\ \A j \in Positions("start", "updateVersion") :
            /\ path = "upgrade"
            /\ Positions("done", "select") # {}
            /\ \A i \in Events :
                trace[i][2] \in SequenceOps
                => /\ i < j
                   /\ trace[i][1] # "fail"
                   /\ trace[i][1] = "start"
                        => Before(j, "done", trace[i][2], trace[i][3])
            /\ variant = "diff" =>
                /\ \A t \in PlannedDrops :
                        Before(j, "done", "dropTableIfExists", <<t>>)
                /\ \A t \in PlannedCreates :
                        Before(j, "done", "createTable", <<t>>)
            /\ variant = "step" =>
                \A v \in StepCatalog :
                    (parseInt(v).val > ResolvedNumber) => Before(j, "done", "up", v)

\* an upgrade of the versioned-step variant that ran a step, then wrote the
\* marker it had read
C18_Witness ==
    /\ variant = "step"
    /\ path = "upgrade"
    /\ Completes
    /\ Positions("done", "select") # {}
    /\ Positions("done", "up") # {}
    /\ Positions("done", "updateVersion") # {}

\* the operations started and neither completed nor failed yet
InFlight ==
    {i \in Events :
        /\ trace[i][1] = "start"
        /\ ~\E k \in Events :
                /\ k > i
                /\ trace[k][1] \in {"done", "fail"}
                /\ trace[k][2] = trace[i][2]
                /\ trace[k][3] = trace[i][3]}

\* C19: at no point of an init() or reset() run are two database operations
\* in flight at the same time, on any engine, MySQL with its repair step
\* included.
C19_OneOperationInFlight == Cardinality(InFlight) <= 1

\* on MySQL a command of the upgrade sequence is in flight together with an
\* ALTER of the repair step
C19_Witness ==
    /\ client = "mysql"
    /\ path = "upgrade"
    /\ \E i, j \in InFlight : trace[i][2] = "alter" /\ trace[j][2] \in TableOps

\* the number of the version the up step at position i belongs to
StepNumber(i) == parseInt(trace[i][3]).val

\* C20: migrateUpFromVersion(current), for a three-digit current version
\* below the target, invokes the up steps in strictly ascending version
\* order, each starting only after the step before has completed, and writes
\* the version marker once, after the last step.
C20_UpStepsAscendingThenVersion ==
    (variant = "step" /\ path = "upgrade")
    => /\ \A i, j \in Positions("start", "up") :
            i < j => /\ StepNumber(i) < StepNumber(j)
                     /\ Before(j, "done", "up", trace[i][3])
       /\ \A i \in Positions("start", "up") :
            /\ Len(trace[i][3]) = 3
            /\ StepNumber(i) >= ResolvedNumber
       /\ Cardinality(Positions("start", "updateVersion")) <= 1
       /\ \A j \in Positions("start", "updateVersion") :
            /\ Positions("done", "up") # {}
            /\ \A i \in Events : trace[i][2] = "up" => i < j
            /\ \A i \in Positions("start", "up") : Before(j, "done", "up", trace[i][3])
       /\ Completes => Cardinality(Positions("done", "updateVersion")) = 1

\* an upgrade that ran two up steps and then wrote the version
C20_Witness ==
    /\ variant = "step"
    /\ path = "upgrade"
    /\ Completes
    /\ ResolvedNumber < TargetNumber
    /\ Cardinality(Positions("done", "up")) >= 2
    /\ trace[Len(trace)][2] = "updateVersion"

-----------------------------------------------------------------------------
(* C21..C30 *)

\* the version reset() of the versioned-step variant comes down from: the
\* one getDatabaseVersion() resolved with, the initial one when it rejected
ResetVersion == IF databaseVersion # Undefined THEN databaseVersion ELSE initialVersion

\* the position of the first down step started in this run
FirstDown(i) == \A j \in Positions("start", "down") : i <= j

\* C21: migrateDownFromVersion(current), for every three-digit current
\* version, invokes the down steps in strictly descending version order from
\* current down to the initial version, one at a time, each step starting
\* only after the step before has completed.
C21_DownStepsDescending ==
    (variant = "step" /\ path = "reset")
    => /\ \A i, j \in Positions("start", "down") :
            i < j => /\ StepNumber(i) > StepNumber(j)
                     /\ Before(j, "done", "down", trace[i][3])
       /\ \A i \in Positions("start", "down") :
            FirstDown(i) => trace[i][3] = ResetVersion
       /\ ResetCompletes =>
            \A n \in 0..parseInt(ResetVersion).val :
                \E i \in Positions("done", "down") : StepNumber(i) = n

\* the same for a current version the Catalog holds a step for
DownStepsDescendingWithinCatalog ==
    ResetVersion \in StepCatalog => C21_DownStepsDescending

\* a reset from a version the Catalog holds no step for: the initial step's
\* down ran first, the steps below the version after it
C21_Witness ==
    /\ variant = "step"
    /\ ResetCompletes
    /\ ResetVersion \notin StepCatalog
    /\ \E i, j \in Positions("start", "down") :
        i < j /\ trace[i][3] = initialVersion /\ StepNumber(j) > 0

\* the schema version after the up steps completed in `tr`, from version n
\* on: the up operation of step N takes a schema at version N to N + 1
RECURSIVE SchemaVersionAfter(_, _)
SchemaVersionAfter(tr, n) ==
    IF tr = <<>> THEN n
    ELSE SchemaVersionAfter(Tail(tr),
            IF Head(tr)[1] = "done" /\ Head(tr)[2] = "up" /\ parseInt(Head(tr)[3]).val = n
            THEN n + 1 ELSE n)

\* the schema version the up steps of this run reached
SchemaVersionReached == SchemaVersionAfter(trace, ResolvedNumber)

\* C22: with each step's up operation taking the schema from version N to
\* N + 1, after migrateUpFromVersion(current) completes for a current
\* version below the target the schema version reached by the steps that
\* were run equals the target version, the value written as the marker.
C22_UpStepsReachTarget ==
    (variant = "step" /\ path = "upgrade" /\ Completes /\ ResolvedNumber < TargetNumber)
    => /\ SchemaVersionReached = TargetNumber
       /\ defaultDatabaseVersion = DefaultSettingsVersion
       /\ \A k \in DOMAIN settings :
            k = "databaseVersion" => settings[k] = DefaultSettingsVersion

\* an upgrade from the version before the target that ran the step of that
\* version and the step of the target, and wrote the target
C22_Witness ==
    /\ variant = "step"
    /\ path = "upgrade"
    /\ Completes
    /\ ResolvedNumber = TargetNumber - 1
    /\ SchemaVersionReached = TargetNumber + 1
    /\ "databaseVersion" \in DOMAIN settings
    /\ settings["databaseVersion"] = DefaultSettingsVersion

\* the start events of step operations in this run
StepStarts == Positions("start", "up") \cup Positions("start", "down")

\* C23: in a single init() or reset() run of the versioned-step variant no
\* step has its up operation, or its down operation, invoked more than once
\* for the same version, runs in which loading a step throws included.
C23_StepsRunOncePerVersion ==
    (variant = "step")
    => \A i, j \in StepStarts :
        (i # j /\ trace[i][2] = trace[j][2]) => trace[i][3] # trace[j][3]

\* a reset in which a step could not be loaded and the down operation of the
\* initial step was started twice
C23_Witness ==
    /\ variant = "step"
    /\ path = "reset"
    /\ \E i \in Events : IsEvent(i, "call", "logError")
    /\ Cardinality({i \in Positions("start", "down") : trace[i][3] = initialVersion}) = 2

StepOps == {"up", "down"}

\* the positions at which a step failed: its operation rejected, or loading
\* it threw and the error was caught
StepFailures ==
    {i \in Events :
        \/ trace[i][1] = "fail" /\ trace[i][2] \in StepOps
        \/ IsEvent(i, "call", "logError")}

\* no step is started after position f
NoStepAfter(f) ==
    \A i \in Events : (i > f /\ trace[i][1] = "start") => trace[i][2] \notin StepOps

\* C24: when a migration step fails during an incremental run, in the up or
\* in the down direction, the error is logged, no later step of the sequence
\* is started, no step is retried or run as a substitute, the run's promise
\* rejects with that error and the version marker is not written.
C24_StepFailureAbortsRun ==
    (variant = "step")
    => \A f \in StepFailures :
        /\ \E i \in Events : IsEvent(i, "call", "logError")
        /\ NoStepAfter(f)
        /\ pc = "rejected"
        /\ initError # NoError
        /\ ~Issued("updateVersion")

\* the same without the logging, for a failure that is not a down step that
\* could not be loaded
StepFailureAbortsRunButForCatch ==
    (variant = "step")
    => \A f \in StepFailures :
        (path = "reset" /\ IsEvent(f, "call", "logError"))
        \/ /\ NoStepAfter(f)
           /\ pc = "rejected"
           /\ initError # NoError
           /\ ~Issued("updateVersion")

\* a reset that went on to completion after a down step could not be loaded
C24_Witness ==
    /\ variant = "step"
    /\ ResetCompletes
    /\ \E f \in StepFailures :
        /\ IsEvent(f, "call", "logError")
        /\ IsEvent(f + 1, "start", "down")

\* the number a string of three decimal digits within lo..hi writes, -1 for
\* any other string
ThreeDigitNumber(v) ==
    IF Len(v) = 3 /\ \A i \in 1..3 : IsDigit(v[i]) THEN DigitsValue(v) ELSE 0 - 1

\* helper `second` was called with what helper `first`, called at position
\* i with a version numbered lo..hi, returned
RoundTrip(i, first, second, lo, hi) ==
    /\ i + 3 <= Len(trace)
    /\ IsEvent(i, "call", first)
    /\ ThreeDigitNumber(trace[i][3]) \in lo..hi
    /\ IsEvent(i + 2, "call", second)

\* C25: for every three-digit version v from '001' to '999',
\* getVersionAfter(getVersionBefore(v)) equals v, and for every v from '000'
\* to '998', getVersionBefore(getVersionAfter(v)) equals v.
C25_AfterAndBeforeAreInverse ==
    \A i \in Events :
        /\ RoundTrip(i, "getVersionBefore", "getVersionAfter", 1, 999)
            => trace[i + 3][3] = trace[i][3]
        /\ RoundTrip(i, "getVersionAfter", "getVersionBefore", 0, 998)
            => trace[i + 3][3] = trace[i][3]

\* getVersionAfter(getVersionBefore('001')) has returned '001'
C25_Witness ==
    /\ RoundTrip(1, "getVersionBefore", "getVersionAfter", 1, 1)
    /\ trace[2][3] = initialVersion
    /\ trace[4][3] = <<"0", "0", "1">>

\* v writes a decimal number: digits, after a minus sign or not
WritesNumber(v) ==
    LET digits == IF v # <<>> /\ Head(v) = "-" THEN Tail(v) ELSE v
    IN  digits # <<>> /\ \A i \in 1..Len(digits) : IsDigit(digits[i])

\* the number v writes
NumberOf(v) ==
    IF Head(v) = "-" THEN 0 - DigitsValue(Tail(v)) ELSE DigitsValue(v)

\* v does not begin with a decimal number
NotParsed(v) ==
    LET digits == IF v # <<>> /\ Head(v) = "-" THEN Tail(v) ELSE v
    IN  digits = <<>> \/ ~IsDigit(Head(digits))

\* the call at position i of helper `name`, which moves a version by
\* `step`, returned the number next to its argument in three digits, and
\* what a call with initialVersion returns (fromInitial) for an argument
\* that is not parsed
ReturnsNeighbour(i, name, step, fromInitial) ==
    IsEvent(i, "call", name) =>
        LET v           == trace[i][3]
            nextVersion == trace[i + 1][3]
        IN  /\ (WritesNumber(v) /\ NumberOf(v) + step \in 0..999)
                => ThreeDigitNumber(nextVersion) = NumberOf(v) + step
            /\ NotParsed(v) => nextVersion = fromInitial

\* C26: getVersionAfter(v) returns the successor of the number v writes and
\* getVersionBefore(v) its predecessor, as exactly three decimal digits
\* whenever that number lies in 0..999; a v that is not parsed as a number
\* gives what '000' gives.
C26_HelpersReturnPaddedNeighbour ==
    \A i \in Events :
        /\ ReturnsNeighbour(i, "getVersionAfter", 1, getVersionAfter(initialVersion))
        /\ ReturnsNeighbour(i, "getVersionBefore", 0 - 1, getVersionBefore(initialVersion))

\* getVersionAfter of a string that is not parsed has returned '001', and
\* getVersionBefore('001') has returned '000'
C26_Witness ==
    /\ Len(trace) = 4
    /\ trace[1] = Ev("call", "getVersionAfter", <<"a">>)
    /\ trace[2] = Ev("return", "getVersionAfter", <<"0", "0", "1">>)
    /\ trace[3] = Ev("call", "getVersionBefore", <<"0", "0", "1">>)
    /\ trace[4] = Ev("return", "getVersionBefore", initialVersion)

\* the error getTables() rejects with for a client it has no query for
UnsupportedEngine == ErrorString("No support for database client")

\* an init() run of the diff-based variant on the upgrade path has ended on
\* an engine other than sqlite3, mysql and pg
UpgradeEndedOnOtherEngine ==
    /\ variant = "diff"
    /\ path = "upgrade"
    /\ ~SupportedClient
    /\ Ended

\* C27: for every engine kind other than sqlite3, mysql and pg, getTables
\* fails with the unsupported-engine error, and an init() run in the upgrade
\* path on such an engine issues no DDL, does not write the version marker
\* and ends the process through the fatal-exit sink.
C27_UnsupportedEngineIsFatal ==
    UpgradeEndedOnOtherEngine
    => /\ initError = UnsupportedEngine
       /\ NoDdl
       /\ Positions("start", "updateVersion") = {}
       /\ settings = settings0
       /\ pc = "exited"
       /\ FatalExits # {}

\* C27 without the fatal exit: the error, no DDL and no marker write
UnsupportedEngineRejects ==
    UpgradeEndedOnOtherEngine
    => /\ initError = UnsupportedEngine
       /\ NoDdl
       /\ Positions("start", "updateVersion") = {}
       /\ settings = settings0
       /\ tables = tables0

\* an upgrade on mssql ended with init()'s promise rejected and no fatal exit
C27_Witness ==
    /\ UpgradeEndedOnOtherEngine
    /\ client = "mssql"
    /\ pc = "rejected"
    /\ initError = UnsupportedEngine
    /\ FatalExits = {}

\* the positions where operation op on table t was issued in this run
IssuedOn(op, t) == {i \in Positions("start", op) : trace[i][3] = <<t>>}

\* the Registry tables that were live when the run began
LiveRegistryTables == RegistryTables \cap tables0

Populates ==
    \E i \in Events : trace[i][2] \in {"populateFixtures", "populateDefaults"}

\* C29: fixture population and default-settings population are invoked only
\* on the fresh-install path, never on another one nor on a run that
\* resolved a version (up to date, upgrade, database too new), and the
\* fresh-install path never calls setDatabaseVersion.
C29_PopulationOnlyOnFreshInstall ==
    /\ (path # "fresh" \/ HasResolved) => ~Populates
    /\ path = "fresh" => ~Issued("updateVersion")

\* a fresh install has populated fixtures and default settings and has
\* completed without a setDatabaseVersion call
C29_Witness ==
    /\ path = "fresh"
    /\ Completes
    /\ Issued("populateFixtures")
    /\ Issued("populateDefaults")
    /\ ~Issued("updateVersion")
    /\ fixtures
    /\ defaults

\* the command at the head of the sequence completes
CommandCompletes == sequenceStep /\ pc' # "rejected"

\* a reset() of the diff-based variant
DiffReset == variant = "diff" /\ path = "reset"

\* C30: reset() succeeds on a database holding any subset of the Registry
\* tables (dropping an absent table is not an error) and leaves no Registry
\* table; a reset() that follows a reset() leaves the database as the first
\* one left it.
C30_ResetOnAnySubsetAndTwice ==
    DiffReset
    => /\ pc = "sequence" => ENABLED CommandCompletes
       /\ (Ended /\ NoEngineFault) => ResetCompletes
       /\ ResetCompletes
            => /\ tables \cap RegistryTables = {}
               /\ tables \ RegistryTables = tables0 \ RegistryTables
               /\ settings = NoRows
       /\ (ResetCompletes /\ previous = <<"reset", "resolved">>)
            => /\ tables = tables0
               /\ settings = settings0
               /\ postCols = Widened
               /\ ~fixtures
               /\ ~defaults

\* a second reset() in a row has completed: each of its drops was of a table
\* that did not exist, and a table outside the Registry is still there
C30_Witness ==
    /\ DiffReset
    /\ ResetCompletes
    /\ previous = <<"reset", "resolved">>
    /\ tables0 \cap RegistryTables = {}
    /\ Cardinality(Positions("done", "dropTableIfExists")) = Len(schemaTables)
    /\ "old_widgets" \in tables

-----------------------------------------------------------------------------
(* C31..C38 *)

\* how often the builder method was called on the column
TimesCalled(calls, method) ==
    Cardinality({i \in 1..Len(calls) : calls[i] = method})

\* the flag is set in the descriptor
IsSet(value) == value = "true"

\* C31: createTable marks every column with exactly one of nullable and
\* notNullable, nullable if and only if the descriptor has nullable true;
\* primary, unique, unsigned, the foreign-key reference and the default are
\* each applied, once, if and only if the descriptor sets them, whatever
\* the other attributes of the column are.
C31_ColumnAttributesIndependent ==
    (trace # <<>> /\ IsEvent(1, "call", "column"))
    => LET d     == trace[1][3][1]
           calls == trace[2][3]
           Once(method, set) ==
               TimesCalled(calls, method) = IF set THEN 1 ELSE 0
       IN  /\ TimesCalled(calls, "nullable") + TimesCalled(calls, "notNullable") = 1
           /\ Once("nullable", IsSet(d.nullable))
           /\ Once("primary", IsSet(d.primary))
           /\ Once("unique", IsSet(d.unique))
           /\ Once("unsigned", IsSet(d.unsigned))
           /\ Once("references", d.references = "present" /\ d.inTable = "present")
           /\ Once("inTable", d.references = "present" /\ d.inTable = "present")
           /\ Once("defaultTo", d.defaultTo = "present")

\* a nullable column was given every other attribute as well
C31_Witness ==
    /\ trace # <<>>
    /\ IsEvent(1, "call", "column")
    /\ trace[1][3][1].nullable = "true"
    /\ trace[2][3] = <<"type", "nullable", "primary", "unique", "unsigned",
                       "references", "inTable", "defaultTo">>

\* the events this step adds to the run's trace
NewEvents ==
    IF Len(trace') >= Len(trace) /\ SubSeq(trace', 1, Len(trace)) = trace
    THEN SubSeq(trace', Len(trace) + 1, Len(trace'))
    ELSE trace'

\* the columns of posts this step issues an ALTER for
NewlyAltered ==
    {c \in PostColumns : \E i \in 1..Len(NewEvents) : NewEvents[i] = Started("alter", <<c>>)}

\* this step issues the query of the repair step
RepairInvoked ==
    \E i \in 1..Len(NewEvents) : NewEvents[i] = Started("showFields", <<"posts">>)

\* the repair step belongs to the upgrade path of the diff-based variant on
\* MySQL, and its ALTERs follow its query, one for a column at most
RepairOnlyOnMySQL ==
    \A i \in Events :
        (trace[i][1] = "start" /\ trace[i][2] \in {"showFields", "alter"})
        => /\ client = "mysql"
           /\ variant = "diff"
           /\ path = "upgrade"
           /\ trace[i][2] = "alter"
                => /\ Before(i, "done", "showFields", <<"posts">>)
                   /\ \A j \in Events : trace[j] = trace[i] => j = i

\* when the table listing of an upgrade arrives the repair step is invoked
\* on MySQL alone, and when its query answers an ALTER is issued for the
\* columns that are not mediumtext alone
RepairStep ==
    (variant = "diff" /\ path = "upgrade")
    => /\ (pc = "getTables" /\ pc' # "rejected")
            => (RepairInvoked <=> client = "mysql")
       /\ (pc = "showFields" /\ pc' # "rejected")
            => NewlyAltered = {c \in PostColumns : postCols[c] # "mediumtext"}
       /\ pc # "showFields" => NewlyAltered = {}

\* C32: the repair step is invoked in the upgrade path if and only if the
\* engine is mysql, never on sqlite3 or pg, and it issues an ALTER for
\* exactly those of posts.html and posts.markdown whose type is not
\* mediumtext, none when both are.
C32_RepairOnMySQLForNarrowColumns ==
    []RepairOnlyOnMySQL /\ [][RepairStep]_vars

\* the repair step has issued an ALTER for html, which was text, and none
\* for markdown, which was mediumtext
C32_Witness ==
    /\ client = "mysql"
    /\ path = "upgrade"
    /\ Before(Len(trace) + 1, "done", "showFields", <<"posts">>)
    /\ Before(Len(trace) + 1, "start", "alter", <<"html">>)
    /\ ~Before(Len(trace) + 1, "start", "alter", <<"markdown">>)
    /\ postCols["markdown"] = "mediumtext"

\* this run is an init() that follows an init() that completed, and no
\* statement of it failed by a fault of the engine
AfterCompletedInit ==
    /\ previous = <<"init", "resolved">>
    /\ pc # "idle"
    /\ path # "reset"
    /\ NoEngineFault

\* C33: after any init() run that completed (fresh install, upgrade or up
\* to date), an immediately following init() run takes the up-to-date path
\* and issues no DDL and no version write.
C33_InitIsIdempotent ==
    AfterCompletedInit
    => /\ path \in {"unknown", "upToDate"}
       /\ Ended => (Completes /\ path = "upToDate")
       /\ NoDdl
       /\ ~Issued("updateVersion")
       /\ tables = tables0
       /\ settings = settings0

\* the same for the runs on a database that has a databaseVersion row
InitIsIdempotentWithMarkerRow ==
    (AfterCompletedInit /\ "databaseVersion" \in DOMAIN settings0)
    => /\ path \in {"unknown", "upToDate"}
       /\ Ended => (Completes /\ path = "upToDate")
       /\ NoDdl
       /\ ~Issued("updateVersion")
       /\ tables = tables0
       /\ settings = settings0

\* an init() that followed a completed init() took the upgrade path again
C33_Witness ==
    /\ AfterCompletedInit
    /\ variant = "diff"
    /\ path = "upgrade"
    /\ Issued("updateVersion")

\* a setDatabaseVersion() call of this run is under way or has completed
SetDatabaseVersionRuns == pc = "setDatabaseVersion" \/ Issued("updateVersion")

\* the cache is initialised when setDatabaseVersion() runs, and the
\* databaseVersion row it has written holds the default-settings version
WritesDefaultVersion ==
    /\ defaultDatabaseVersion \in {Undefined, DefaultSettingsVersion}
    /\ pc \in {"setDatabaseVersion", "resolved"}
        => (SetDatabaseVersionRuns
            => /\ defaultDatabaseVersion = DefaultSettingsVersion
               /\ (Completes /\ "databaseVersion" \in DOMAIN settings)
                    => settings["databaseVersion"] = DefaultSettingsVersion)

\* once initialised the cache keeps its value as long as the process lives
CacheKept ==
    (defaultDatabaseVersion # Undefined /\ pc # "exited")
    => defaultDatabaseVersion' = defaultDatabaseVersion

VersionsByRowOrder ==
    {ResolveVersion([i \in 1..Len(keys) |-> settings0[keys[i]]]) :
        keys \in Listings(DOMAIN settings0)}

\* C35: the version string getDatabaseVersion() returns, and therefore the
\* branch init() takes, does not depend on the order in which the query
\* returns the databaseVersion and currentVersion rows: the same marker rows
\* in another order resolve to the same string.
C35_VersionIndependentOfRowOrder ==
    HasResolved => VersionsByRowOrder = {databaseVersion}

\* the same for marker rows whose values differ as numbers or not at all
VersionIndependentOfRowOrderUnlessEqualNumbers ==
    (/\ HasResolved
     /\ \A k, l \in DOMAIN settings0 :
            parseInt(settings0[k]).val = parseInt(settings0[l]).val
            => settings0[k] = settings0[l])
    => VersionsByRowOrder = {databaseVersion}

\* two marker rows that write the same number differently resolved to the
\* one the query returned first
C35_Witness ==
    /\ HasResolved
    /\ DOMAIN settings0 = MarkerKeys
    /\ settings0["databaseVersion"] = <<"4">>
    /\ settings0["currentVersion"] = DefaultSettingsVersion
    /\ databaseVersion = <<"4">>
    /\ path = "tooNew"

\* the tables outside the Registry that were live when the run began
OtherTables0 == tables0 \ RegistryTables

Looping == pc = "looping"

\* C37: the version-aggregation loops terminate: migrateUpFromVersion(v) for
\* every resolved version v for which init() calls it, and
\* migrateDownFromVersion(v) for every resolved version v that reset()
\* passes to it.
C37_VersionLoopsTerminate ==
    ~Looping

\* the loop of migrateDownFromVersion terminates, and the loop of
\* migrateUpFromVersion does for every version of three digits
LoopsTerminateButUpFromLongVersion ==
    Looping => (path = "upgrade" /\ Len(databaseVersion) # 3)

\* init() of the versioned-step variant resolved '0005', took it for a
\* version below '004' and is in the loop of migrateUpFromVersion
C37_Witness ==
    /\ Looping
    /\ variant = "step"
    /\ path = "upgrade"
    /\ databaseVersion = <<"0", "0", "0", "5">>

\* a statement of the repair step has failed in this run
RepairFailed(op) == \E i \in Events : trace[i][1] = "fail" /\ trace[i][2] = op

\* the run has issued no drop, no create and no version write
NoDiffNoVersionWrite ==
    \A i \in Events : trace[i][2] \notin TableOps \cup {"updateVersion"}

\* C38: on MySQL, when a statement of the repair step fails, the SHOW
\* FIELDS query or an ALTER, the upgrade run issues no dropTableIfExists and
\* no createTable and does not write the version marker.
C38_RepairFailureStopsUpgrade ==
    (client = "mysql" /\ path = "upgrade"
        /\ (RepairFailed("showFields") \/ RepairFailed("alter")))
    => /\ NoDiffNoVersionWrite
       /\ settings = settings0

\* the same for a failure of the SHOW FIELDS query alone
ShowFieldsFailureStopsUpgrade ==
    (client = "mysql" /\ path = "upgrade" /\ RepairFailed("showFields"))
    => /\ NoDiffNoVersionWrite
       /\ NoDdl
       /\ settings = settings0
       /\ tables = tables0
       /\ pc = "rejected"

\* an upgrade on MySQL completed and wrote the version though an ALTER of
\* the repair step had failed
C38_Witness ==
    /\ client = "mysql"
    /\ path = "upgrade"
    /\ Completes
    /\ RepairFailed("alter")
    /\ Positions("done", "updateVersion") # {}
    /\ \E c \in PostColumns : postCols[c] # "mediumtext"

====
